---- MODULE Spec2Model ----
(***************************************************************************)
(* A model of the Tara fiber runtime (Source/Runtime.cxx): the Scheduler   *)
(* with its ready and dead queues, the main loop of Scheduler::run and     *)
(* the public wrappers Call, Yield, Sleep, Exit, Open, Close, Read, Write, *)
(* Accept4 and Connect.  Timer and IOPoll are used by the scheduler but    *)
(* their sources are not part of Runtime.cxx; they are modelled from       *)
(* their documented contracts.                                             *)
(***************************************************************************)
EXTENDS Integers, Sequences, FiniteSets, TLC

\* ------------------------------------------------------------------ bounds

\* Size of the pool of fiber records (mmap'ed regions) that can exist at once.
MaxFibers == 3
\* Number of file descriptors the kernel hands out (0 .. MaxFd - 1).
MaxFd == 1
\* Longest finite Sleep duration / await timeout, in clock ticks.
MaxDuration == 1

\* ------------------------------------------------------- program constants

EBADF == 9
ETIME == 62
ETIMEDOUT == 110
\* TARA_LENGTH_OF(buffer) in the timer phase of Scheduler::run
BufferLength == 1024

FiberIds == 1 .. MaxFibers
\* nullptr, as the value of runningFiber_
NoFiber == 0
FDs == 0 .. (MaxFd - 1)
IOEvents == {"Readability", "Writability"}
Durations == (0 - 1) .. MaxDuration

\* ------------------------------------------------------------------- state

VARIABLES
  pc,                \* where the thread is: "main", "loop", "reap", "poll", "timer" (in run) or "fiber"
  fiberCount_,       \* Scheduler::fiberCount_
  context_,          \* Scheduler::context_: "null" or "set" (the jmp_buf of run)
  status_,           \* Scheduler::status_
  runningFiber_,     \* Scheduler::runningFiber_ (NoFiber = nullptr)
  readyFiberQueue_,  \* Scheduler::readyFiberQueue_, head first
  deadFiberQueue_,   \* Scheduler::deadFiberQueue_, head first
  fiber,             \* the Fiber records: context, status, fd
  allocated,         \* the fiber records whose stack region is mapped
  ioPoll_,           \* Scheduler::ioPoll_: watched fds and the wait sets
  timer_,            \* Scheduler::timer_: items in expiry order
  lastReturn,        \* what the latest runtime call returned to the running fiber
  awaiting,          \* per fiber, the arguments of its latest awaitIOEvent
  wokenBy,           \* per fiber, the path that last put it back on the ready queue
  mustRun,           \* per fiber, the fibers that were ready when it last yielded and have not run since
  badFree,           \* a DestroyFiber of a region that was not mapped (any more) happened
  output,            \* what the coroutines have printed: the names (ids) of the printing fibers
  sleepLeft          \* per fiber, the clock units from now to (time of its latest Sleep + duration); -1 if that duration was < 0

schedVars == <<pc, fiberCount_, context_, status_, runningFiber_,
               readyFiberQueue_, deadFiberQueue_>>
vars == <<pc, fiberCount_, context_, status_, runningFiber_, readyFiberQueue_,
          deadFiberQueue_, fiber, allocated, ioPoll_, timer_, lastReturn,
          awaiting, wokenBy, mustRun, badFree, output, sleepLeft>>

\* ----------------------------------------------------------------- helpers

Range(s) == {s[i] : i \in 1 .. Len(s)}

RECURSIVE SeqRemove(_, _)
\* QUEUE_REMOVE of every link of x in s
SeqRemove(s, x) ==
  IF s = <<>> THEN <<>>
  ELSE IF Head(s) = x THEN SeqRemove(Tail(s), x)
  ELSE <<Head(s)>> \o SeqRemove(Tail(s), x)

RECURSIVE Count(_, _)
Count(s, x) ==
  IF s = <<>> THEN 0
  ELSE (IF Head(s) = x THEN 1 ELSE 0) + Count(Tail(s), x)

RECURSIVE Flatten(_)
Flatten(ss) == IF ss = <<>> THEN <<>> ELSE Head(ss) \o Flatten(Tail(ss))

\* The Fiber constructor: no saved context, status 0, no awaited fd.
NewFiber == [context |-> "null", status |-> 0, fd |-> 0 - 1]

\* ------------------------------------------------------------------- Timer

\* An item with a negative duration never expires.
Expires(item) == item.remaining >= 0

\* Whether item a stays in front of a newly added item b.
Before(a, b) ==
  IF ~Expires(b) THEN TRUE
  ELSE Expires(a) /\ a.remaining <= b.remaining

RECURSIVE TimerInsert(_, _)
TimerInsert(t, item) ==
  IF t = <<>> THEN <<item>>
  ELSE IF Before(Head(t), item) THEN <<Head(t)>> \o TimerInsert(Tail(t), item)
  ELSE <<item>> \o t

\* Timer::addItem(&fiber->timerItem, duration)
addItem(t, f, duration) ==
  TimerInsert(t, [fiber |-> f, remaining |-> IF duration < 0 THEN 0 - 1 ELSE duration])

RECURSIVE removeItem(_, _)
\* Timer::removeItem(&fiber->timerItem): unlinks the item if present
removeItem(t, f) ==
  IF t = <<>> THEN <<>>
  ELSE IF Head(t).fiber = f THEN removeItem(Tail(t), f)
  ELSE <<Head(t)>> \o removeItem(Tail(t), f)

RECURSIVE removeItems(_, _)
removeItems(t, fs) ==
  IF fs = <<>> THEN t ELSE removeItems(removeItem(t, Head(fs)), Tail(fs))

\* Timer::calculateTimeout(): time to the earliest deadline, -1 for "wait indefinitely"
calculateTimeout(t) ==
  IF t = <<>> \/ ~Expires(Head(t)) THEN 0 - 1 ELSE Head(t).remaining

IsDue(item) == item.remaining = 0

RECURSIVE DuePrefix(_, _)
DuePrefix(t, cap) ==
  IF t = <<>> \/ cap = 0 \/ ~IsDue(Head(t)) THEN <<>>
  ELSE <<Head(t).fiber>> \o DuePrefix(Tail(t), cap - 1)

\* Timer::removeDueItems(buffer, n): the owners of the due items, in expiry order
removeDueItems(t, cap) == DuePrefix(t, cap)

TimerFibers(t) == {t[i].fiber : i \in 1 .. Len(t)}

\* ------------------------------------------------------------------ IOPoll

NoAwaiters == [fd \in FDs |-> [ev \in IOEvents |-> <<>>]]

\* The fibers linked in some wait set, with multiplicity
PollWaiting(io) ==
  Flatten([i \in 1 .. (2 * MaxFd) |->
             io.awaiters[(i - 1) \div 2][IF i % 2 = 1 THEN "Readability" ELSE "Writability"]])

\* IOPoll::watch(fd)
watch(io, fd) == [io EXCEPT !.watched = @ \cup {fd}]

\* Scheduler::ioIsWatched(fd)
ioIsWatched(fd) == fd \in ioPoll_.watched

\* IOPoll::addEventAwaiter(&fiber->queueItem, fd, ioEvent)
addEventAwaiter(io, f, fd, ev) ==
  [io EXCEPT !.awaiters[fd][ev] = Append(@, f)]

\* IOPoll::removeEventAwaiter(fiber->queueItem, fd): unlinks from whichever set of fd it is in
removeEventAwaiter(io, f, fd) ==
  [io EXCEPT !.awaiters[fd] = [ev \in IOEvents |-> SeqRemove(@[ev], f)]]

\* The orders in which IOPoll::removeEventAwaiters(fd, &queue) may hand over the waiters of fd
DrainOrders(io, fd) ==
  { io.awaiters[fd]["Readability"] \o io.awaiters[fd]["Writability"],
    io.awaiters[fd]["Writability"] \o io.awaiters[fd]["Readability"] }

\* IOPoll::removeEventAwaiters(fd, &queue): fd is deregistered and its wait sets emptied
removeEventAwaiters(io, fd) ==
  [watched |-> io.watched \ {fd},
   awaiters |-> [io.awaiters EXCEPT ![fd] = [ev \in IOEvents |-> <<>>]]]

RECURSIVE Perms(_)
Perms(S) ==
  IF S = {} THEN {<<>>}
  ELSE UNION {{<<x>> \o p : p \in Perms(S \ {x})} : x \in S}

\* The (fd, event) pairs somebody waits for
WaitedPairs(io) ==
  {p \in FDs \X IOEvents : io.awaiters[p[1]][p[2]] # <<>>}

\* What the kernel may report to one IOPoll::waitForEvents: some waited pairs, in some order
ReadyReports(io) == UNION {Perms(T) : T \in SUBSET WaitedPairs(io)}

\* The fibers IOPoll::waitForEvents splices out for the reported pairs
Spliced(io, report) ==
  Flatten([i \in 1 .. Len(report) |-> io.awaiters[report[i][1]][report[i][2]]])

RECURSIVE ClearPairs(_, _)
ClearPairs(aw, report) ==
  IF report = <<>> THEN aw
  ELSE ClearPairs([aw EXCEPT ![Head(report)[1]][Head(report)[2]] = <<>>], Tail(report))

\* The pair a spliced fiber was waiting for
PairOf(io, report, f) ==
  CHOOSE p \in Range(report) : f \in Range(io.awaiters[p[1]][p[2]])

\* IOPoll::waitForEvents on a fiber it splices out: normal wakeup, fd cleared
SpliceFiber(rec) == [rec EXCEPT !.status = 1, !.fd = 0 - 1]

\* ------------------------------------------------------ context switching

\* Scheduler::execute(): back to the setjmp of run, which goes to no_ready_fiber
execute ==
  /\ runningFiber_' = NoFiber
  /\ pc' = IF context_ # "null" /\ status_ # 0 THEN "reap" ELSE "abort"
  /\ lastReturn' = <<>>

\* What awaitIOEvent returns when its setjmp returns status
AwaitReturn(status) ==
  IF status < 0 THEN <<"awaitIOEvent", 0 - 1, 0 - status>>
  ELSE <<"awaitIOEvent", 0, 0>>

\* Scheduler::executeFiber(fiber): bootstrap a fiber without context, else longjmp
executeFiber(f) ==
  /\ runningFiber_' = f
  /\ pc' = IF fiber'[f].context # "null" /\ fiber'[f].status = 0 THEN "abort" ELSE "fiber"
  /\ lastReturn' = IF fiber'[f].context = "awaitIOEvent"
                   THEN AwaitReturn(fiber'[f].status)
                   ELSE <<>>

\* The tail common to sleep, kill and await: execute() if nothing is ready, else run the head
DispatchNext(ready, mr) ==
  IF ready = <<>>
  THEN /\ execute
       /\ readyFiberQueue_' = ready
       /\ mustRun' = mr
  ELSE /\ readyFiberQueue_' = Tail(ready)
       /\ executeFiber(Head(ready))
       /\ mustRun' = [g \in FiberIds |-> mr[g] \ {Head(ready)}]

\* The running fiber (or main) went on after its latest runtime call returned:
\* what that call returned and how the fiber was woken are history
Forget(ghost) ==
  [f \in FiberIds |-> IF f = runningFiber_ THEN <<>> ELSE ghost[f]]

\* ---------------------------------------------------------------- Scheduler

Init ==
  /\ pc = "main"
  /\ fiberCount_ = 0
  /\ context_ = "null"
  /\ status_ = 0
  /\ runningFiber_ = NoFiber
  /\ readyFiberQueue_ = <<>>
  /\ deadFiberQueue_ = <<>>
  /\ fiber = [f \in FiberIds |-> NewFiber]
  /\ allocated = {}
  /\ ioPoll_ = [watched |-> {}, awaiters |-> NoAwaiters]
  /\ timer_ = <<>>
  /\ lastReturn = <<>>
  /\ awaiting = [f \in FiberIds |-> <<>>]
  /\ wokenBy = [f \in FiberIds |-> <<>>]
  /\ mustRun = [f \in FiberIds |-> {}]
  /\ badFree = FALSE
  /\ output = <<>>
  /\ sleepLeft = [f \in FiberIds |-> 0]

\* The thread is in user code that may call the runtime: main outside run, or a fiber
InUserCode == pc \in {"main", "fiber"}

\* CreateFiber: a freshly mapped region holding a new Fiber record
CreateFiber == CHOOSE f \in FiberIds \ allocated : \A g \in FiberIds \ allocated : f <= g

\* callCoroutine with ++fiberCount_ moved out of the else branch
callCoroutine_CountsRecycled ==
  IF deadFiberQueue_ # <<>>
  THEN /\ deadFiberQueue_' = Tail(deadFiberQueue_)
       /\ readyFiberQueue_' = Append(readyFiberQueue_, Head(deadFiberQueue_))
       /\ fiberCount_' = fiberCount_ + 1
       /\ UNCHANGED <<fiber, allocated>>
  ELSE /\ allocated # FiberIds
       /\ allocated' = allocated \cup {CreateFiber}
       /\ fiber' = [fiber EXCEPT ![CreateFiber] = NewFiber]
       /\ fiberCount_' = fiberCount_ + 1
       /\ readyFiberQueue_' = Append(readyFiberQueue_, CreateFiber)
       /\ UNCHANGED deadFiberQueue_

\* callCoroutine with QUEUE_INSERT_HEAD for QUEUE_INSERT_TAIL
callCoroutine_InsertHead ==
  IF deadFiberQueue_ # <<>>
  THEN /\ deadFiberQueue_' = Tail(deadFiberQueue_)
       /\ readyFiberQueue_' = <<Head(deadFiberQueue_)>> \o readyFiberQueue_
       /\ UNCHANGED <<fiberCount_, fiber, allocated>>
  ELSE /\ allocated # FiberIds
       /\ allocated' = allocated \cup {CreateFiber}
       /\ fiber' = [fiber EXCEPT ![CreateFiber] = NewFiber]
       /\ fiberCount_' = fiberCount_ + 1
       /\ readyFiberQueue_' = <<CreateFiber>> \o readyFiberQueue_
       /\ UNCHANGED deadFiberQueue_

\* Scheduler::callCoroutine
callCoroutine ==
  IF deadFiberQueue_ # <<>>
  THEN /\ deadFiberQueue_' = Tail(deadFiberQueue_)
       /\ readyFiberQueue_' = Append(readyFiberQueue_, Head(deadFiberQueue_))
       /\ UNCHANGED <<fiberCount_, fiber, allocated>>
  ELSE /\ allocated # FiberIds
       /\ allocated' = allocated \cup {CreateFiber}
       /\ fiber' = [fiber EXCEPT ![CreateFiber] = NewFiber]
       /\ fiberCount_' = fiberCount_ + 1
       /\ readyFiberQueue_' = Append(readyFiberQueue_, CreateFiber)
       /\ UNCHANGED deadFiberQueue_

\* Call(coroutine)
Call ==
  /\ InUserCode
  /\ \E coroutine \in {"nullptr", "coroutine"} :
       IF coroutine # "nullptr"
       THEN /\ callCoroutine
            /\ lastReturn' = <<>>
            /\ awaiting' = Forget(awaiting)
            /\ wokenBy' = Forget(wokenBy)
            /\ UNCHANGED <<pc, context_, status_, runningFiber_, ioPoll_, timer_,
                           mustRun, badFree>>
       ELSE /\ lastReturn' = <<>>
            /\ awaiting' = Forget(awaiting)
            /\ wokenBy' = Forget(wokenBy)
            /\ UNCHANGED <<schedVars, fiber, allocated, ioPoll_, timer_, mustRun, badFree>>
  /\ UNCHANGED <<output, sleepLeft>>

\* yieldCurrentFiber with QUEUE_INSERT_HEAD for QUEUE_INSERT_TAIL
yieldCurrentFiber_InsertHead ==
  IF readyFiberQueue_ = <<>>
  THEN /\ lastReturn' = <<>>
       /\ awaiting' = Forget(awaiting)
       /\ wokenBy' = Forget(wokenBy)
       /\ UNCHANGED <<pc, runningFiber_, readyFiberQueue_, fiber, mustRun>>
  ELSE /\ fiber' = [fiber EXCEPT ![runningFiber_].context = "yieldCurrentFiber",
                                 ![runningFiber_].status = 1]
       /\ awaiting' = [awaiting EXCEPT ![runningFiber_] = <<>>]
       /\ wokenBy' = [wokenBy EXCEPT ![runningFiber_] = <<>>]
       /\ DispatchNext(<<runningFiber_>> \o readyFiberQueue_,
                       [mustRun EXCEPT ![runningFiber_] = Range(readyFiberQueue_)])

\* Scheduler::yieldCurrentFiber
yieldCurrentFiber ==
  IF readyFiberQueue_ = <<>>
  THEN /\ lastReturn' = <<>>
       /\ awaiting' = Forget(awaiting)
       /\ wokenBy' = Forget(wokenBy)
       /\ UNCHANGED <<pc, runningFiber_, readyFiberQueue_, fiber, mustRun>>
  ELSE /\ fiber' = [fiber EXCEPT ![runningFiber_].context = "yieldCurrentFiber",
                                 ![runningFiber_].status = 1]
       /\ awaiting' = [awaiting EXCEPT ![runningFiber_] = <<>>]
       /\ wokenBy' = [wokenBy EXCEPT ![runningFiber_] = <<>>]
       /\ DispatchNext(Append(readyFiberQueue_, runningFiber_),
                       [mustRun EXCEPT ![runningFiber_] = Range(readyFiberQueue_)])

\* Yield()
Yield ==
  /\ pc = "fiber"
  /\ yieldCurrentFiber
  /\ UNCHANGED <<fiberCount_, context_, status_, deadFiberQueue_, allocated,
                 ioPoll_, timer_, badFree>>
  /\ UNCHANGED <<output, sleepLeft>>

\* sleepCurrentFiber adding its timer item with duration 0
sleepCurrentFiber_NoDuration(duration) ==
  /\ fiber' = [fiber EXCEPT ![runningFiber_].context = "sleepCurrentFiber",
                            ![runningFiber_].status = 1]
  /\ timer_' = addItem(timer_, runningFiber_, 0)
  /\ awaiting' = [awaiting EXCEPT ![runningFiber_] = <<>>]
  /\ wokenBy' = [wokenBy EXCEPT ![runningFiber_] = <<>>]
  /\ DispatchNext(readyFiberQueue_, [mustRun EXCEPT ![runningFiber_] = {}])

\* Scheduler::sleepCurrentFiber(duration)
sleepCurrentFiber(duration) ==
  /\ fiber' = [fiber EXCEPT ![runningFiber_].context = "sleepCurrentFiber",
                            ![runningFiber_].status = 1]
  /\ timer_' = addItem(timer_, runningFiber_, duration)
  /\ awaiting' = [awaiting EXCEPT ![runningFiber_] = <<>>]
  /\ wokenBy' = [wokenBy EXCEPT ![runningFiber_] = <<>>]
  /\ DispatchNext(readyFiberQueue_, [mustRun EXCEPT ![runningFiber_] = {}])

\* Sleep(duration)
Sleep ==
  /\ pc = "fiber"
  /\ \E duration \in Durations :
       /\ sleepCurrentFiber(duration)
       /\ sleepLeft' = [sleepLeft EXCEPT ![runningFiber_] =
                          IF duration < 0 THEN 0 - 1 ELSE duration]
  /\ UNCHANGED <<fiberCount_, context_, status_, deadFiberQueue_, allocated,
                 ioPoll_, badFree>>
  /\ UNCHANGED output

\* killCurrentFiber without runningFiber_->context = nullptr
killCurrentFiber_KeepsContext ==
  /\ fiber' = [fiber EXCEPT ![runningFiber_].status = 0]
  /\ deadFiberQueue_' = Append(deadFiberQueue_, runningFiber_)
  /\ awaiting' = [awaiting EXCEPT ![runningFiber_] = <<>>]
  /\ wokenBy' = [wokenBy EXCEPT ![runningFiber_] = <<>>]
  /\ DispatchNext(readyFiberQueue_, [mustRun EXCEPT ![runningFiber_] = {}])

\* killCurrentFiber calling execute() whether or not a fiber is ready
killCurrentFiber_AlwaysExecutes ==
  /\ fiber' = [fiber EXCEPT ![runningFiber_].context = "null",
                            ![runningFiber_].status = 0]
  /\ deadFiberQueue_' = Append(deadFiberQueue_, runningFiber_)
  /\ awaiting' = [awaiting EXCEPT ![runningFiber_] = <<>>]
  /\ wokenBy' = [wokenBy EXCEPT ![runningFiber_] = <<>>]
  /\ execute
  /\ readyFiberQueue_' = readyFiberQueue_
  /\ mustRun' = [mustRun EXCEPT ![runningFiber_] = {}]

\* Scheduler::killCurrentFiber
killCurrentFiber ==
  /\ fiber' = [fiber EXCEPT ![runningFiber_].context = "null",
                            ![runningFiber_].status = 0]
  /\ deadFiberQueue_' = Append(deadFiberQueue_, runningFiber_)
  /\ awaiting' = [awaiting EXCEPT ![runningFiber_] = <<>>]
  /\ wokenBy' = [wokenBy EXCEPT ![runningFiber_] = <<>>]
  /\ DispatchNext(readyFiberQueue_, [mustRun EXCEPT ![runningFiber_] = {}])

\* FiberStart, after fiber->coroutine() returned or threw UnwindStack
FiberStart ==
  /\ killCurrentFiber
  /\ UNCHANGED <<fiberCount_, context_, status_, allocated, ioPoll_, timer_, badFree>>
  /\ UNCHANGED <<output, sleepLeft>>

\* The coroutine of the running fiber returns
Return ==
  /\ pc = "fiber"
  /\ FiberStart

\* Exit(): exitCurrentFiber throws UnwindStack, which FiberStart catches
Exit ==
  /\ pc = "fiber"
  /\ FiberStart

RECURSIVE SetStatus(_, _, _)
\* fiber->status = status for every fiber of the queue
SetStatus(fibers, queue, status) ==
  IF queue = <<>> THEN fibers
  ELSE SetStatus([fibers EXCEPT ![Head(queue)].status = status], Tail(queue), status)

\* unwatchIO without timer_.removeItem(&fiber->timerItem)
unwatchIO_KeepsTimerItem(fd) ==
  \E fiberQueue \in DrainOrders(ioPoll_, fd) :
    /\ ioPoll_' = removeEventAwaiters(ioPoll_, fd)
    /\ timer_' = timer_
    /\ fiber' = SetStatus(fiber, fiberQueue, 0 - EBADF)
    /\ readyFiberQueue_' = readyFiberQueue_ \o fiberQueue
    /\ wokenBy' = [f \in FiberIds |->
                     IF f \in Range(fiberQueue) THEN <<"unwatchIO", fd>>
                     ELSE Forget(wokenBy)[f]]

\* unwatchIO without fiber->status = -EBADF
unwatchIO_KeepsStatus(fd) ==
  \E fiberQueue \in DrainOrders(ioPoll_, fd) :
    /\ ioPoll_' = removeEventAwaiters(ioPoll_, fd)
    /\ timer_' = removeItems(timer_, fiberQueue)
    /\ fiber' = fiber
    /\ readyFiberQueue_' = readyFiberQueue_ \o fiberQueue
    /\ wokenBy' = [f \in FiberIds |->
                     IF f \in Range(fiberQueue) THEN <<"unwatchIO", fd>>
                     ELSE Forget(wokenBy)[f]]

\* Scheduler::unwatchIO(fd)
unwatchIO(fd) ==
  \E fiberQueue \in DrainOrders(ioPoll_, fd) :
    /\ ioPoll_' = removeEventAwaiters(ioPoll_, fd)
    /\ timer_' = removeItems(timer_, fiberQueue)
    /\ fiber' = SetStatus(fiber, fiberQueue, 0 - EBADF)
    /\ readyFiberQueue_' = readyFiberQueue_ \o fiberQueue
    /\ wokenBy' = [f \in FiberIds |->
                     IF f \in Range(fiberQueue) THEN <<"unwatchIO", fd>>
                     ELSE Forget(wokenBy)[f]]

\* Scheduler::watchIO(fd)
watchIO(fd) == ioPoll_' = watch(ioPoll_, fd)

\* Open, Pipe2, Socket, EventFD: the kernel hands out a new descriptor, which is watched
Open ==
  /\ InUserCode
  /\ \E fd \in FDs \ ioPoll_.watched : watchIO(fd)
  /\ lastReturn' = <<>>
  /\ awaiting' = Forget(awaiting)
  /\ wokenBy' = Forget(wokenBy)
  /\ UNCHANGED <<schedVars, fiber, allocated, timer_, mustRun, badFree>>
  /\ UNCHANGED <<output, sleepLeft>>

\* Close yielding to the ready queue after unwatchIO released awaiters
Close_Yields ==
  /\ InUserCode
  /\ \E fd \in FDs :
       IF ~ioIsWatched(fd)
       THEN /\ lastReturn' = <<"ioIsWatched", 0 - 1, EBADF>>
            /\ wokenBy' = Forget(wokenBy)
            /\ UNCHANGED <<pc, runningFiber_, readyFiberQueue_, fiber, ioPoll_, timer_,
                           mustRun>>
       ELSE \E fiberQueue \in DrainOrders(ioPoll_, fd) :
              /\ ioPoll_' = removeEventAwaiters(ioPoll_, fd)
              /\ timer_' = removeItems(timer_, fiberQueue)
              /\ wokenBy' = [f \in FiberIds |->
                               IF f \in Range(fiberQueue) THEN <<"unwatchIO", fd>>
                               ELSE Forget(wokenBy)[f]]
              /\ IF pc = "fiber" /\ fiberQueue # <<>>
                 THEN /\ fiber' = [SetStatus(fiber, fiberQueue, 0 - EBADF)
                                     EXCEPT ![runningFiber_].context = "yieldCurrentFiber",
                                            ![runningFiber_].status = 1]
                      /\ DispatchNext(Append(readyFiberQueue_ \o fiberQueue, runningFiber_),
                                      mustRun)
                 ELSE /\ fiber' = SetStatus(fiber, fiberQueue, 0 - EBADF)
                      /\ readyFiberQueue_' = readyFiberQueue_ \o fiberQueue
                      /\ lastReturn' = <<>>
                      /\ UNCHANGED <<pc, runningFiber_, mustRun>>
  /\ awaiting' = Forget(awaiting)
  /\ UNCHANGED <<fiberCount_, context_, status_, deadFiberQueue_, allocated, badFree>>
  /\ UNCHANGED <<output, sleepLeft>>

\* Close(fd)
Close ==
  /\ InUserCode
  /\ \E fd \in FDs :
       IF ~ioIsWatched(fd)
       THEN /\ lastReturn' = <<"ioIsWatched", 0 - 1, EBADF>>
            /\ wokenBy' = Forget(wokenBy)
            /\ UNCHANGED <<readyFiberQueue_, fiber, ioPoll_, timer_>>
       ELSE /\ unwatchIO(fd)
            /\ lastReturn' = <<>>
  /\ awaiting' = Forget(awaiting)
  /\ UNCHANGED <<pc, fiberCount_, context_, status_, runningFiber_, deadFiberQueue_,
                 allocated, mustRun, badFree>>
  /\ UNCHANGED <<output, sleepLeft>>

\* Scheduler::awaitIOEvent(fd, ioEvent, timeout), up to the switch to another fiber
awaitIOEvent(fd, ioEvent, timeout) ==
  /\ fiber' = [fiber EXCEPT ![runningFiber_].context = "awaitIOEvent",
                            ![runningFiber_].status = 1,
                            ![runningFiber_].fd = fd]
  /\ ioPoll_' = addEventAwaiter(ioPoll_, runningFiber_, fd, ioEvent)
  /\ timer_' = addItem(timer_, runningFiber_, timeout)
  /\ awaiting' = [awaiting EXCEPT ![runningFiber_] = <<fd, ioEvent>>]
  /\ wokenBy' = [wokenBy EXCEPT ![runningFiber_] = <<>>]
  /\ DispatchNext(readyFiberQueue_, [mustRun EXCEPT ![runningFiber_] = {}])

\* The body of Read, Write, Accept4 and Connect without the ioIsWatched check
IOWrapper_NoCheck(ioEvent) ==
  /\ pc = "fiber"
  /\ \E fd \in FDs :
       \/ /\ lastReturn' = <<>>
          /\ awaiting' = Forget(awaiting)
          /\ wokenBy' = Forget(wokenBy)
          /\ UNCHANGED <<pc, runningFiber_, readyFiberQueue_, fiber, ioPoll_, timer_,
                         mustRun>>
       \/ \E timeout \in Durations : awaitIOEvent(fd, ioEvent, timeout)
  /\ UNCHANGED <<fiberCount_, context_, status_, deadFiberQueue_, allocated, badFree>>
  /\ UNCHANGED <<output, sleepLeft>>

\* The body shared by Read, Write, Accept4 and Connect: EBADF for an unwatched fd;
\* else the system call either ends the wrapper (a result, or another error) or
\* reports EWOULDBLOCK (EINPROGRESS for connect), on which the fiber awaits ioEvent
IOWrapper(ioEvent) ==
  /\ pc = "fiber"
  /\ \E fd \in FDs :
       IF ~ioIsWatched(fd)
       THEN /\ lastReturn' = <<"ioIsWatched", 0 - 1, EBADF>>
            /\ awaiting' = Forget(awaiting)
            /\ wokenBy' = Forget(wokenBy)
            /\ UNCHANGED <<pc, runningFiber_, readyFiberQueue_, fiber, ioPoll_, timer_,
                           mustRun>>
       ELSE \/ /\ lastReturn' = <<>>
               /\ awaiting' = Forget(awaiting)
               /\ wokenBy' = Forget(wokenBy)
               /\ UNCHANGED <<pc, runningFiber_, readyFiberQueue_, fiber, ioPoll_, timer_,
                              mustRun>>
            \/ \E timeout \in Durations : awaitIOEvent(fd, ioEvent, timeout)
  /\ UNCHANGED <<fiberCount_, context_, status_, deadFiberQueue_, allocated, badFree>>
  /\ UNCHANGED <<output, sleepLeft>>

\* Read(fd, buf, buflen, timeout)
Read == IOWrapper("Readability")

\* Write(fd, buf, buflen, timeout)
Write == IOWrapper("Writability")

\* Accept4(fd, addr, addrlen, flags, timeout)
Accept4 == IOWrapper("Readability")

\* Connect(fd, addr, addrlen, timeout)
Connect == IOWrapper("Writability")

\* ------------------------------------------------------------ Scheduler::run

\* run(): returns at once without fibers, else enters the loop
Run ==
  /\ pc = "main"
  /\ IF fiberCount_ = 0 THEN UNCHANGED vars
     ELSE /\ pc' = "loop"
          /\ lastReturn' = <<>>
          /\ UNCHANGED <<fiberCount_, context_, status_, runningFiber_, readyFiberQueue_,
                         deadFiberQueue_, fiber, allocated, ioPoll_, timer_,
                         awaiting, wokenBy, mustRun, badFree>>
  /\ UNCHANGED <<output, sleepLeft>>

\* The head of the loop: the first ready fiber is run, with the resume point of run saved
DispatchPhase ==
  /\ pc = "loop"
  /\ UNCHANGED <<fiberCount_, deadFiberQueue_, fiber, allocated, ioPoll_, timer_,
                 awaiting, wokenBy, badFree>>
  /\ IF readyFiberQueue_ # <<>>
     THEN /\ context_' = "set"
          /\ status_' = 1
          /\ DispatchNext(readyFiberQueue_, mustRun)
     ELSE /\ pc' = "reap"
          /\ UNCHANGED <<context_, status_, runningFiber_, readyFiberQueue_, lastReturn,
                         mustRun>>
  /\ UNCHANGED <<output, sleepLeft>>

RECURSIVE DestroyFibers(_, _)
\* DestroyFiber on every fiber of the dead queue: the regions left mapped
DestroyFibers(mapped, queue) ==
  IF queue = <<>> THEN mapped
  ELSE DestroyFibers(mapped \ {Head(queue)}, Tail(queue))

\* Whether draining the queue unmaps a region that is not mapped (any more)
FreesUnmapped(mapped, queue) ==
  \E i \in 1 .. Len(queue) :
    \/ queue[i] \notin mapped
    \/ \E j \in 1 .. (i - 1) : queue[j] = queue[i]

\* The reap phase leaving the loop whenever it destroyed fibers
ReapPhase_AlwaysReturns ==
  /\ pc = "reap"
  /\ IF deadFiberQueue_ # <<>>
     THEN /\ allocated' = DestroyFibers(allocated, deadFiberQueue_)
          /\ badFree' = (badFree \/ FreesUnmapped(allocated, deadFiberQueue_))
          /\ fiber' = [f \in FiberIds |->
                         IF f \in Range(deadFiberQueue_) THEN NewFiber ELSE fiber[f]]
          /\ fiberCount_' = fiberCount_ - Len(deadFiberQueue_)
          /\ deadFiberQueue_' = <<>>
          /\ pc' = "main"
     ELSE /\ pc' = "poll"
          /\ UNCHANGED <<allocated, badFree, fiber, fiberCount_, deadFiberQueue_>>
  /\ UNCHANGED <<context_, status_, runningFiber_, readyFiberQueue_, ioPoll_, timer_,
                 lastReturn, awaiting, wokenBy, mustRun>>
  /\ UNCHANGED <<output, sleepLeft>>

\* no_ready_fiber: every dead fiber is destroyed; run returns when none is left
ReapPhase ==
  /\ pc = "reap"
  /\ IF deadFiberQueue_ # <<>>
     THEN /\ allocated' = DestroyFibers(allocated, deadFiberQueue_)
          /\ badFree' = (badFree \/ FreesUnmapped(allocated, deadFiberQueue_))
          /\ fiber' = [f \in FiberIds |->
                         IF f \in Range(deadFiberQueue_) THEN NewFiber ELSE fiber[f]]
          /\ fiberCount_' = fiberCount_ - Len(deadFiberQueue_)
          /\ deadFiberQueue_' = <<>>
          /\ pc' = IF fiberCount_' = 0 THEN "main" ELSE "poll"
     ELSE /\ pc' = "poll"
          /\ UNCHANGED <<allocated, badFree, fiber, fiberCount_, deadFiberQueue_>>
  /\ UNCHANGED <<context_, status_, runningFiber_, readyFiberQueue_, ioPoll_, timer_,
                 lastReturn, awaiting, wokenBy, mustRun>>
  /\ UNCHANGED <<output, sleepLeft>>

\* The fiber records after IOPoll::waitForEvents spliced out the fibers of fiberQueue
SpliceAll(fibers, fiberQueue) ==
  [f \in FiberIds |-> IF f \in Range(fiberQueue) THEN SpliceFiber(fibers[f]) ELSE fibers[f]]

\* The poll phase without timer_.removeItem(&fiber->timerItem)
PollPhase_KeepsTimerItems ==
  /\ pc = "poll"
  /\ \E report \in ReadyReports(ioPoll_) :
       LET fiberQueue == Spliced(ioPoll_, report) IN
         /\ report # <<>> \/ calculateTimeout(timer_) = 0
         /\ ioPoll_' = [ioPoll_ EXCEPT !.awaiters = ClearPairs(@, report)]
         /\ fiber' = SpliceAll(fiber, fiberQueue)
         /\ timer_' = timer_
         /\ readyFiberQueue_' = readyFiberQueue_ \o fiberQueue
         /\ wokenBy' = [f \in FiberIds |->
                          IF f \in Range(fiberQueue)
                          THEN <<"poll">> \o PairOf(ioPoll_, report, f)
                          ELSE wokenBy[f]]
  /\ pc' = "timer"
  /\ UNCHANGED <<fiberCount_, context_, status_, runningFiber_, deadFiberQueue_,
                 allocated, lastReturn, awaiting, mustRun, badFree>>
  /\ UNCHANGED <<output, sleepLeft>>

\* The poll phase: waitForEvents returns with the waiters of the reported events,
\* or empty-handed once the timeout of calculateTimeout has elapsed
PollPhase ==
  /\ pc = "poll"
  /\ \E report \in ReadyReports(ioPoll_) :
       LET fiberQueue == Spliced(ioPoll_, report) IN
         /\ report # <<>> \/ calculateTimeout(timer_) = 0
         /\ ioPoll_' = [ioPoll_ EXCEPT !.awaiters = ClearPairs(@, report)]
         /\ fiber' = SpliceAll(fiber, fiberQueue)
         /\ timer_' = removeItems(timer_, fiberQueue)
         /\ readyFiberQueue_' = readyFiberQueue_ \o fiberQueue
         /\ wokenBy' = [f \in FiberIds |->
                          IF f \in Range(fiberQueue)
                          THEN <<"poll">> \o PairOf(ioPoll_, report, f)
                          ELSE wokenBy[f]]
  /\ pc' = "timer"
  /\ UNCHANGED <<fiberCount_, context_, status_, runningFiber_, deadFiberQueue_,
                 allocated, lastReturn, awaiting, mustRun, badFree>>
  /\ UNCHANGED <<output, sleepLeft>>

\* The timer phase with QUEUE_INSERT_HEAD for QUEUE_INSERT_TAIL
ExpireFiber_InsertHead(st, f) ==
  IF st.fiber[f].fd >= 0
  THEN [fiber |-> [st.fiber EXCEPT ![f].fd = 0 - 1, ![f].status = 0 - ETIME],
        io |-> removeEventAwaiter(st.io, f, st.fiber[f].fd),
        ready |-> <<f>> \o st.ready]
  ELSE [st EXCEPT !.ready = <<f>> \o @]

\* The timer phase without fiber->status = -ETIME
ExpireFiber_KeepsStatus(st, f) ==
  IF st.fiber[f].fd >= 0
  THEN [fiber |-> [st.fiber EXCEPT ![f].fd = 0 - 1],
        io |-> removeEventAwaiter(st.io, f, st.fiber[f].fd),
        ready |-> Append(st.ready, f)]
  ELSE [st EXCEPT !.ready = Append(@, f)]

\* One round of the loop of the timer phase, on the fiber owning a due item
ExpireFiber(st, f) ==
  IF st.fiber[f].fd >= 0
  THEN [fiber |-> [st.fiber EXCEPT ![f].fd = 0 - 1, ![f].status = 0 - ETIME],
        io |-> removeEventAwaiter(st.io, f, st.fiber[f].fd),
        ready |-> Append(st.ready, f)]
  ELSE [st EXCEPT !.ready = Append(@, f)]

RECURSIVE ExpireAll_Backwards(_, _)
\* The loop of the timer phase running from buffer[n - 1] down to buffer[0]
ExpireAll_Backwards(st, due) ==
  IF due = <<>> THEN st
  ELSE ExpireFiber(ExpireAll_Backwards(st, Tail(due)), Head(due))

RECURSIVE ExpireAll(_, _)
\* The loop of the timer phase over buffer[0 .. n - 1]
ExpireAll(st, due) ==
  IF due = <<>> THEN st ELSE ExpireAll(ExpireFiber(st, Head(due)), Tail(due))

\* The timer phase: the owners of the due items are made ready
TimerPhase ==
  /\ pc = "timer"
  /\ LET due == removeDueItems(timer_, BufferLength)
         st == ExpireAll([fiber |-> fiber, io |-> ioPoll_, ready |-> readyFiberQueue_], due)
     IN /\ timer_' = SubSeq(timer_, Len(due) + 1, Len(timer_))
        /\ fiber' = st.fiber
        /\ ioPoll_' = st.io
        /\ readyFiberQueue_' = st.ready
        /\ wokenBy' = [f \in FiberIds |->
                         IF f \in Range(due) THEN <<"timer">> ELSE wokenBy[f]]
  /\ pc' = "loop"
  /\ UNCHANGED <<fiberCount_, context_, status_, runningFiber_, deadFiberQueue_,
                 allocated, lastReturn, awaiting, mustRun, badFree>>
  /\ UNCHANGED <<output, sleepLeft>>

\* The clock advances by one unit: every deadline comes one unit closer
Tick ==
  /\ \E i \in 1 .. Len(timer_) : timer_[i].remaining > 0
  /\ timer_' = [i \in 1 .. Len(timer_) |->
                  IF timer_[i].remaining > 0
                  THEN [timer_[i] EXCEPT !.remaining = @ - 1]
                  ELSE timer_[i]]
  /\ sleepLeft' = [f \in FiberIds |-> IF sleepLeft[f] > 0 THEN sleepLeft[f] - 1 ELSE sleepLeft[f]]
  /\ UNCHANGED <<schedVars, fiber, allocated, ioPoll_, lastReturn, awaiting, wokenBy,
                 mustRun, badFree>>
  /\ UNCHANGED output

Next ==
  \/ Call
  \/ Yield
  \/ Sleep
  \/ Return
  \/ Exit
  \/ Open
  \/ Close
  \/ Read
  \/ Write
  \/ Accept4
  \/ Connect
  \/ Run
  \/ DispatchPhase
  \/ ReapPhase
  \/ PollPhase
  \/ TimerPhase
  \/ Tick

Spec == Init /\ [][Next]_vars

TypeOK ==
  /\ pc \in {"main", "loop", "reap", "poll", "timer", "fiber", "abort"}
  /\ runningFiber_ \in FiberIds \cup {NoFiber}
  /\ (pc = "fiber") = (runningFiber_ # NoFiber)

\* ------------------------------------------------------------------ claims

Running == runningFiber_ # NoFiber

\* The fibers that are in the timer store and in no wait set: the sleepers
TimerOnly == TimerFibers(timer_) \ Range(PollWaiting(ioPoll_))

FiberCountInv ==
  fiberCount_ = Len(readyFiberQueue_) + Len(deadFiberQueue_)
                + Len(PollWaiting(ioPoll_)) + Cardinality(TimerOnly)
                + (IF Running THEN 1 ELSE 0)

\* A step of Call that takes a record from the dead queue
RecycleStep == pc # "reap" /\ Len(deadFiberQueue_') < Len(deadFiberQueue_)

\* A step of the reap phase
ReapStep == pc = "reap" /\ pc' # "reap"

\* C1: fiberCount_ is the number of fibers ready, dead, waiting in IOPoll, sleeping
\* or running, in every reachable state; a Call that recycles a dead fiber leaves
\* fiberCount_ alone and the reap phase lowers it by one per destroyed fiber.
C1_FiberCount ==
  /\ []FiberCountInv
  /\ [][RecycleStep => fiberCount_' = fiberCount_]_vars
  /\ [][ReapStep => fiberCount_' = fiberCount_ - Cardinality(allocated \ allocated')]_vars

C1_Witness ==
  /\ fiberCount_ = 3
  /\ Len(deadFiberQueue_) = 1
  /\ Len(PollWaiting(ioPoll_)) = 1
  /\ Cardinality(TimerOnly) = 1
  /\ context_ = "set"

\* How often fiber f is linked through its queueItem
Links(f) ==
  Count(readyFiberQueue_, f) + Count(deadFiberQueue_, f) + Count(PollWaiting(ioPoll_), f)

\* C2: every fiber is linked into at most one of the ready queue, the dead queue and
\* the wait sets (so never twice into the ready queue), and the running fiber into none.
C2_OneQueue ==
  /\ \A f \in FiberIds : Links(f) <= 1
  /\ Running => Links(runningFiber_) = 0

C2_Witness ==
  \E f, g \in Range(readyFiberQueue_) :
    /\ wokenBy[f] # <<>> /\ wokenBy[f][1] = "poll"
    /\ wokenBy[g] = <<"timer">>
    /\ fiber[g].status = 0 - ETIME

\* C3: a fiber that yielded while other fibers were ready runs again only after each
\* of those fibers has been dispatched.
C3_YieldOrder == Running => mustRun[runningFiber_] = {}

C3_Witness ==
  /\ Running
  /\ fiber[runningFiber_].context = "yieldCurrentFiber"
  /\ Len(readyFiberQueue_) = 2
  /\ \A g \in Range(readyFiberQueue_) : fiber[g].context = "yieldCurrentFiber"
  /\ \E g \in Range(readyFiberQueue_) : mustRun[g] # {}

\* The ready queue changes by appending at its tail only
AppendOnly(q, q2) == Len(q2) >= Len(q) /\ SubSeq(q2, 1, Len(q)) = q

\* C4: the ready queue is FIFO: a step either only appends to its tail, or takes its
\* head, which becomes the running fiber, and appends to the tail of the rest; a
\* fiber starts to run only as the head of the ready queue.
C4_Fifo ==
  [][ /\ \/ AppendOnly(readyFiberQueue_, readyFiberQueue_')
         \/ /\ readyFiberQueue_ # <<>>
            /\ runningFiber_' = Head(readyFiberQueue_)
            /\ AppendOnly(Tail(readyFiberQueue_), readyFiberQueue_')
      /\ (runningFiber_' # runningFiber_ /\ runningFiber_' # NoFiber)
           => (readyFiberQueue_ # <<>> /\ runningFiber_' = Head(readyFiberQueue_)) ]_vars

C4_Witness ==
  /\ Running
  /\ Len(readyFiberQueue_) = 2
  /\ wokenBy[readyFiberQueue_[1]] = <<"timer">>
  /\ wokenBy[readyFiberQueue_[2]] # <<>> /\ wokenBy[readyFiberQueue_[2]][1] = "unwatchIO"

\* The ping-pong program: main spawns fibers A (1) and B (2) and runs the scheduler;
\* each coroutine prints its name and calls Yield, PingPongRounds times, and returns.
PingPongRounds == 4

PingPongSpawn == pc = "main" /\ context_ = "null" /\ fiberCount_ < 2 /\ Call

PingPongRun == pc = "main" /\ fiberCount_ = 2 /\ Run

PrintAndYield ==
  /\ pc = "fiber"
  /\ Count(output, runningFiber_) < PingPongRounds
  /\ output' = Append(output, runningFiber_)
  /\ yieldCurrentFiber
  /\ UNCHANGED <<fiberCount_, context_, status_, deadFiberQueue_, allocated,
                 ioPoll_, timer_, badFree, sleepLeft>>

PingPongReturn ==
  /\ pc = "fiber"
  /\ Count(output, runningFiber_) = PingPongRounds
  /\ Return

PingPongNext ==
  \/ PingPongSpawn
  \/ PingPongRun
  \/ PrintAndYield
  \/ PingPongReturn
  \/ DispatchPhase
  \/ ReapPhase

PingPongSpec == Init /\ [][PingPongNext]_vars

PingPongDone == pc = "main" /\ context_ = "set"

\* The output of the ping-pong program is A B A B A B A B
PingPongOutput == PingPongDone => output = <<1, 2, 1, 2, 1, 2, 1, 2>>

\* The running fiber has just been resumed in awaitIOEvent
ResumedInAwait == Running /\ lastReturn # <<>> /\ lastReturn[1] = "awaitIOEvent"

\* C5: a fiber released from awaitIOEvent by the timer phase is out of the wait sets,
\* has fd -1 and gets -1 with errno ETIMEDOUT.
C5_TimeoutErrno ==
  (ResumedInAwait /\ wokenBy[runningFiber_] = <<"timer">>)
    => /\ Links(runningFiber_) = 0
       /\ fiber[runningFiber_].fd = 0 - 1
       /\ lastReturn = <<"awaitIOEvent", 0 - 1, ETIMEDOUT>>

\* What the code does on that path
C5_Observed ==
  (ResumedInAwait /\ wokenBy[runningFiber_] = <<"timer">>)
    => /\ Links(runningFiber_) = 0
       /\ fiber[runningFiber_].fd = 0 - 1
       /\ lastReturn = <<"awaitIOEvent", 0 - 1, ETIME>>

WokenByUnwatch(f) == wokenBy[f] # <<>> /\ wokenBy[f][1] = "unwatchIO"

\* C6: after unwatchIO(fd) no fiber waits for fd; every awaiter it released has no
\* timer item, is on the ready queue with status -EBADF while fibers still run (the
\* scheduler has not gone back to its loop, hence not to the poll phase), and when it
\* runs awaitIOEvent returns -1 with errno EBADF.
C6_CloseWakes ==
  /\ \A fd \in FDs \ ioPoll_.watched : \A ev \in IOEvents : ioPoll_.awaiters[fd][ev] = <<>>
  /\ \A f \in FiberIds :
       WokenByUnwatch(f) =>
         IF f = runningFiber_
         THEN lastReturn = <<"awaitIOEvent", 0 - 1, EBADF>>
         ELSE /\ Count(readyFiberQueue_, f) = 1
              /\ pc = "fiber"
              /\ f \notin TimerFibers(timer_)
              /\ fiber[f].status = 0 - EBADF

C6_Witness ==
  /\ Running
  /\ WokenByUnwatch(runningFiber_)
  /\ lastReturn = <<"awaitIOEvent", 0 - 1, EBADF>>
  /\ \E g \in Range(readyFiberQueue_) : WokenByUnwatch(g)

\* The steps of the loop of Scheduler::run
SchedulerStep == Run \/ DispatchPhase \/ ReapPhase \/ PollPhase \/ TimerPhase

\* The runtime calls of fibers that read with a timeout, yield and return
YieldingFiberStep == Read \/ Yield \/ Return

\* A program whose main opens descriptors, spawns fibers and runs the scheduler, and
\* whose fibers only Read, Yield and return
YieldNext ==
  \/ pc = "main" /\ Call
  \/ pc = "main" /\ Open
  \/ YieldingFiberStep
  \/ SchedulerStep
  \/ Tick

\* The loop of run goes on, the clock advances, and a running fiber goes on to its
\* next runtime call
YieldSpec ==
  /\ Init
  /\ [][YieldNext]_vars
  /\ WF_vars(SchedulerStep)
  /\ WF_vars(Tick)
  /\ WF_vars(YieldingFiberStep)

\* Fiber f is suspended in awaitIOEvent with a timeout >= 0
TimedAwait(f) ==
  /\ Count(PollWaiting(ioPoll_), f) > 0
  /\ \E i \in 1 .. Len(timer_) : timer_[i].fiber = f /\ Expires(timer_[i])

\* C7: a fiber suspended in awaitIOEvent with a timeout >= 0 is eventually resumed,
\* whatever the other fibers do, fibers that keep calling Yield included.
C7_AwaitResumed == \A f \in FiberIds : TimedAwait(f) ~> (runningFiber_ = f)

\* C8: awaitIOEvent returns 0 exactly when the poll phase spliced the fiber out for
\* the very fd and event it awaits; released by the timer phase or by unwatchIO it
\* returns -1.
C8_ZeroOnlyIfReady ==
  ResumedInAwait =>
    /\ wokenBy[runningFiber_] # <<>>
    /\ awaiting[runningFiber_] # <<>>
    /\ (lastReturn[2] = 0) = (wokenBy[runningFiber_] = <<"poll">> \o awaiting[runningFiber_])
    /\ (lastReturn[2] = 0 - 1) = (wokenBy[runningFiber_][1] \in {"timer", "unwatchIO"})

C8_Witness ==
  /\ ResumedInAwait
  /\ lastReturn = <<"awaitIOEvent", 0, 0>>
  /\ \E g \in Range(readyFiberQueue_) : fiber[g].status = 0 - ETIME

\* C9: a fiber's fd is >= 0 exactly while the fiber is linked in a wait set.
C9_FdIffAwaiting ==
  \A f \in allocated : (fiber[f].fd >= 0) = (Count(PollWaiting(ioPoll_), f) > 0)

\* A step that leaves run
RunReturns == pc # "main" /\ pc' = "main"

NoFiberLeft ==
  /\ fiberCount_ = 0
  /\ allocated = {}
  /\ readyFiberQueue_ = <<>>
  /\ deadFiberQueue_ = <<>>
  /\ PollWaiting(ioPoll_) = <<>>
  /\ timer_ = <<>>

\* C10: run returns only with fiberCount_ 0 and every fiber record destroyed; a
\* fiber is destroyed only from the dead queue, when it is neither running, ready,
\* sleeping nor awaiting I/O, and never twice.
C10_RunReturnsClean ==
  /\ [](fiberCount_ = 0 => NoFiberLeft)
  /\ [](~badFree)
  /\ [][RunReturns => NoFiberLeft']_vars
  /\ [][\A f \in allocated \ allocated' :
          /\ Count(deadFiberQueue_, f) = 1
          /\ f # runningFiber_
          /\ Count(readyFiberQueue_, f) = 0
          /\ Count(PollWaiting(ioPoll_), f) = 0
          /\ f \notin TimerFibers(timer_)]_vars

C10_Witness ==
  /\ pc = "main"
  /\ context_ = "set"
  /\ NoFiberLeft
  /\ ioPoll_.watched # {}

\* Fiber f was put on the ready queue by Call and has not been dispatched yet
NotYetRun(f) == Count(readyFiberQueue_, f) = 1 /\ fiber[f].context = "null"

\* C11: a fiber that Call made from a recycled record is, until its first dispatch,
\* in the state of a fiber made from a fresh record: null context, status 0, fd -1.
C11_RecycledIsFresh ==
  \A f \in FiberIds : NotYetRun(f) => fiber[f] = NewFiber

\* What the code guarantees of a record taken from the dead queue
C11_Observed ==
  \A f \in FiberIds : NotYetRun(f) => fiber[f].status = 0

\* Fiber f is suspended in Sleep
Asleep(f) ==
  /\ f \in allocated
  /\ f # runningFiber_
  /\ fiber[f].context = "sleepCurrentFiber"
  /\ Count(readyFiberQueue_, f) = 0

\* The running fiber has just been resumed in Sleep by the timer phase
ResumedInSleep ==
  /\ Running
  /\ fiber[runningFiber_].context = "sleepCurrentFiber"
  /\ wokenBy[runningFiber_] = <<"timer">>

\* C12: a fiber suspended in Sleep(D) leaves that state only by a step of the timer
\* phase that appends it to the ready queue, and only when D >= 0 and the clock has
\* reached the time of the call + D; no poll wakeup, unwatchIO or action of another
\* fiber releases it, and Sleep then returns without an error.
C12_NoEarlyWake ==
  /\ [][\A f \in FiberIds :
          (Asleep(f) /\ ~Asleep(f)')
            => /\ pc = "timer"
               /\ sleepLeft[f] = 0
               /\ readyFiberQueue_' # <<>>
               /\ Count(readyFiberQueue_', f) = 1
               /\ wokenBy'[f] = <<"timer">>]_vars
  /\ [](\A f \in FiberIds : (Asleep(f) /\ sleepLeft[f] # 0) => f \in TimerFibers(timer_))
  /\ [](ResumedInSleep => lastReturn = <<>>)

C12_Witness ==
  /\ ResumedInSleep
  /\ \E g \in FiberIds : Asleep(g) /\ sleepLeft[g] = 0 - 1
  /\ \E g \in FiberIds : Asleep(g) /\ sleepLeft[g] = 1

\* The place of the item of fiber f in the timer store
ItemIndex(t, f) == CHOOSE i \in 1 .. Len(t) : t[i].fiber = f

\* The timer store is in ascending order of deadline, items that never expire last
TimerSorted ==
  \A i, j \in 1 .. Len(timer_) :
    i < j => \/ ~Expires(timer_[j])
             \/ Expires(timer_[i]) /\ timer_[i].remaining <= timer_[j].remaining

\* What a step appended to the ready queue
Released == SubSeq(readyFiberQueue_', Len(readyFiberQueue_) + 1, Len(readyFiberQueue_'))

\* C13: the fibers one timer phase releases are appended to the ready queue in the
\* order of their items in the timer store, which is ascending deadline with ties in
\* insertion order; each of them was due.
C13_TimerOrder ==
  /\ []TimerSorted
  /\ [][pc = "timer" =>
          /\ AppendOnly(readyFiberQueue_, readyFiberQueue_')
          /\ \A i \in 1 .. Len(Released) :
               /\ Released[i] \in TimerFibers(timer_)
               /\ IsDue(timer_[ItemIndex(timer_, Released[i])])
               /\ \A j \in 1 .. Len(Released) :
                    i < j => ItemIndex(timer_, Released[i]) < ItemIndex(timer_, Released[j])]_vars

C13_Witness ==
  /\ pc = "loop"
  /\ Len(readyFiberQueue_) = 3
  /\ \A i \in 1 .. 3 : wokenBy[readyFiberQueue_[i]] = <<"timer">>
  /\ fiber[readyFiberQueue_[1]].context = "sleepCurrentFiber"
  /\ fiber[readyFiberQueue_[2]].context = "awaitIOEvent"
  /\ fiber[readyFiberQueue_[3]].context = "sleepCurrentFiber"

\* The sleep-ordering program: main spawns fibers S1, S2 and S3 and runs the scheduler;
\* Sn sleeps SleepOrderDurations[n] clock units (of 10 ms), prints its name and returns.
\* The coroutines compute in no time: the clock advances only while the thread is
\* blocked in the poll phase.
SleepOrderDurations == <<3, 1, 2>>

SleepOrderSpawn == pc = "main" /\ context_ = "null" /\ fiberCount_ < 3 /\ Call

SleepOrderRun == pc = "main" /\ fiberCount_ = 3 /\ Run

SleepOrderSleep ==
  /\ pc = "fiber"
  /\ fiber[runningFiber_].context = "null"
  /\ sleepCurrentFiber(SleepOrderDurations[runningFiber_])
  /\ sleepLeft' = [sleepLeft EXCEPT ![runningFiber_] = SleepOrderDurations[runningFiber_]]
  /\ UNCHANGED <<fiberCount_, context_, status_, deadFiberQueue_, allocated,
                 ioPoll_, badFree, output>>

SleepOrderPrint ==
  /\ pc = "fiber"
  /\ fiber[runningFiber_].context = "sleepCurrentFiber"
  /\ output' = Append(output, runningFiber_)
  /\ killCurrentFiber
  /\ UNCHANGED <<fiberCount_, context_, status_, allocated, ioPoll_, timer_, badFree,
                 sleepLeft>>

SleepOrderTick == pc = "poll" /\ Tick

SleepOrderNext ==
  \/ SleepOrderSpawn
  \/ SleepOrderRun
  \/ SleepOrderSleep
  \/ SleepOrderPrint
  \/ DispatchPhase
  \/ ReapPhase
  \/ PollPhase
  \/ TimerPhase
  \/ SleepOrderTick

SleepOrderSpec == Init /\ [][SleepOrderNext]_vars

SleepOrderDone == pc = "main" /\ context_ = "set"

\* The output of the sleep-ordering program is S2 S3 S1, and no fiber prints before
\* its duration has passed
SleepOrderOutput ==
  /\ SleepOrderDone => output = <<2, 3, 1>>
  /\ \A n \in Range(output) : sleepLeft[n] = 0

\* The calls in which the running fiber may lose the thread
SuspendingCall == Yield \/ Sleep \/ Read \/ Write \/ Accept4 \/ Connect \/ Exit \/ Return

\* Call, Close and the wrappers that create a descriptor (watchIO)
NonSuspendingCall == Call \/ Open \/ Close

\* C14: the running fiber changes only in a step of Yield, Sleep, Read, Write, Accept4,
\* Connect, Exit or a return of the coroutine, made by the running fiber itself; Call,
\* Close and the descriptor-creating wrappers leave the running fiber running, and so
\* do the passing of time and the readiness of descriptors.
C14_NoImplicitSwitch ==
  [][ /\ (Running /\ runningFiber_' # runningFiber_) => SuspendingCall
      /\ NonSuspendingCall => (runningFiber_' = runningFiber_ /\ pc' = pc)
      /\ Tick => (runningFiber_' = runningFiber_ /\ pc' = pc)
      /\ (PollPhase \/ TimerPhase \/ ReapPhase) => (~Running /\ runningFiber_' = NoFiber) ]_vars

C14_Witness ==
  /\ Running
  /\ lastReturn = <<>>
  /\ \E g \in Range(readyFiberQueue_) : WokenByUnwatch(g)
  /\ \E i \in 1 .. Len(timer_) : IsDue(timer_[i]) /\ sleepLeft[timer_[i].fiber] = 0
  /\ \E fd \in FDs : ioPoll_.awaiters[fd]["Writability"] # <<>>

\* A step of Call with a null coroutine: nothing of the scheduler changes
CallNothing ==
  UNCHANGED <<schedVars, fiber, allocated, ioPoll_, timer_>>

\* A step of Call that takes the head of the dead queue
CallRecycled ==
  /\ deadFiberQueue_ # <<>>
  /\ deadFiberQueue_' = Tail(deadFiberQueue_)
  /\ readyFiberQueue_' = Append(readyFiberQueue_, Head(deadFiberQueue_))
  /\ fiberCount_' = fiberCount_
  /\ allocated' = allocated

\* A step of Call that allocates a new fiber
CallAllocated ==
  /\ deadFiberQueue_ = <<>>
  /\ deadFiberQueue_' = <<>>
  /\ fiberCount_' = fiberCount_ + 1
  /\ \E f \in FiberIds \ allocated :
       /\ allocated' = allocated \cup {f}
       /\ readyFiberQueue_' = Append(readyFiberQueue_, f)
       /\ fiber'[f] = NewFiber

\* C15: Call(coroutine) takes the head of the dead queue if there is one, leaving
\* fiberCount_ and the mapped regions alone, and otherwise allocates a fiber and
\* counts it; either way the fiber goes to the tail of the ready queue, and the
\* running fiber, the timer store and IOPoll stay as they are. Call(nullptr) does
\* nothing.
C15_CallFrame ==
  [][Call =>
       /\ CallNothing \/ CallRecycled \/ CallAllocated
       /\ UNCHANGED <<pc, runningFiber_, context_, status_, timer_, ioPoll_>>
       /\ \A f \in allocated : fiber'[f] = fiber[f]]_vars

\* A recycled record (it still holds the fd of its previous coroutine) and a fresh one
\* have been appended to the ready queue, in that order
C15_Witness ==
  /\ Running
  /\ Len(readyFiberQueue_) = 2
  /\ NotYetRun(readyFiberQueue_[1]) /\ fiber[readyFiberQueue_[1]].fd >= 0
  /\ NotYetRun(readyFiberQueue_[2]) /\ fiber[readyFiberQueue_[2]].fd < 0
  /\ fiberCount_ = 3
  /\ deadFiberQueue_ = <<>>

\* The wrappers that take a descriptor
FdCall == Read \/ Write \/ Accept4 \/ Connect \/ Close

\* What a wrapper returns for a descriptor that is not watched
BadFd == <<"ioIsWatched", 0 - 1, EBADF>>

\* C16: Read, Write, Accept4, Connect and Close on a descriptor that is not watched
\* return -1 with errno EBADF and change nothing: the caller keeps running, no timer
\* item and no awaiter is added, no fiber is made ready and the watched set stays as it
\* is. A descriptor that Close unwatched stays unwatched until a wrapper creates it
\* again, so a second Close of it fails in the same way.
C16_UnwatchedFd ==
  [][ /\ (FdCall /\ ioPoll_.watched = {}) => lastReturn' = BadFd
      /\ (FdCall /\ lastReturn' = BadFd) =>
            /\ FDs \ ioPoll_.watched # {}
            /\ UNCHANGED <<schedVars, fiber, allocated, ioPoll_, timer_, mustRun>>
      /\ \A fd \in FDs : (fd \notin ioPoll_.watched /\ fd \in ioPoll_'.watched) => Open
      /\ \A fd \in FDs : (fd \in ioPoll_.watched /\ fd \notin ioPoll_'.watched) => Close ]_vars

C16_Witness ==
  /\ Running
  /\ lastReturn = BadFd
  /\ ioPoll_.watched = {}
  /\ \E g \in Range(readyFiberQueue_) : WokenByUnwatch(g) /\ fiber[g].status = 0 - EBADF
  /\ timer_ # <<>>

\* Fiber f is linked in the dead queue
Dead(f) == Count(deadFiberQueue_, f) > 0

\* Where the thread goes when the running fiber is killed
ControlPassesOn ==
  IF readyFiberQueue_ = <<>>
  THEN runningFiber_' = NoFiber /\ pc' = "reap" /\ readyFiberQueue_' = <<>>
  ELSE /\ runningFiber_' = Head(readyFiberQueue_)
       /\ readyFiberQueue_' = Tail(readyFiberQueue_)
       /\ pc' = "fiber"

\* C17: a fiber becomes dead only as the running fiber, in the step in which its
\* coroutine returns or calls Exit; it then has status 0 and a null context, is linked
\* once in the dead queue, and the thread goes to the head of the ready queue or, if
\* there is none, back to the loop of run. A dead fiber does not run, and nothing
\* makes a ready, sleeping or awaiting fiber dead.
C17_DeadOnlyBySelf ==
  /\ [][\A f \in FiberIds :
          (~Dead(f) /\ Dead(f)')
            => /\ runningFiber_ = f
               /\ Return \/ Exit
               /\ fiber'[f].status = 0
               /\ fiber'[f].context = "null"
               /\ deadFiberQueue_' = Append(deadFiberQueue_, f)
               /\ ControlPassesOn]_vars
  /\ [](\A f \in FiberIds :
          Dead(f) => /\ f # runningFiber_
                     /\ fiber[f].status = 0
                     /\ fiber[f].context = "null"
                     /\ f \notin TimerFibers(timer_))

C17_Witness ==
  /\ Len(deadFiberQueue_) = 2
  /\ ResumedInAwait
  /\ wokenBy[runningFiber_] = <<"timer">>
  /\ readyFiberQueue_ = <<>>

\* C18: a fiber has status 0 exactly when it has no saved context (fresh, dead or
\* recycled); whenever a fiber runs, the resume point of run is set and status_ is not
\* 0; so no fiber is dispatched with a saved context and status 0, and neither the
\* assertion of executeFiber nor those of execute fail.
C18_StatusIffContext ==
  /\ pc # "abort"
  /\ \A f \in allocated : (fiber[f].status = 0) = (fiber[f].context = "null")
  /\ Running => (context_ = "set" /\ status_ # 0)
  /\ pc \in {"reap", "poll", "timer"} => (context_ = "set" /\ status_ # 0)

C18_Witness ==
  /\ Running
  /\ fiber[runningFiber_].context = "awaitIOEvent"
  /\ fiber[runningFiber_].status = 0 - EBADF
  /\ \E g \in Range(readyFiberQueue_) : NotYetRun(g) /\ fiber[g].fd >= 0
  /\ \E g \in FiberIds : Asleep(g)

\* Fiber f is linked in a wait set of descriptor fd
AwaitsFd(f, fd) ==
  \E ev \in IOEvents : Count(ioPoll_.awaiters[fd][ev], f) > 0

\* The fibers the timer phase is about to release
DueFibers == Range(removeDueItems(timer_, BufferLength))

\* C19: every due fiber that the timer phase finds with fd >= 0 (on which it calls
\* removeEventAwaiter and sets an error status) is suspended in awaitIOEvent and
\* linked in a wait set of that fd; a fiber that is only sleeping is not among them.
C19_TimerSeesAwaiters ==
  pc = "timer" =>
    \A f \in DueFibers :
      fiber[f].fd >= 0 => /\ fiber[f].context = "awaitIOEvent"
                          /\ AwaitsFd(f, fiber[f].fd)

\* What the code does: the due fibers with fd >= 0 that await nothing are sleepers,
\* linked in no queue, that kept the fd of an await ended by unwatchIO
C19_Observed ==
  pc = "timer" =>
    \A f \in DueFibers :
      (fiber[f].fd >= 0 /\ ~AwaitsFd(f, fiber[f].fd))
        => /\ fiber[f].context = "sleepCurrentFiber"
           /\ Links(f) = 0

\* Fiber f is suspended in Sleep or in awaitIOEvent
Suspended(f) ==
  /\ f \in allocated
  /\ f # runningFiber_
  /\ Count(readyFiberQueue_, f) = 0
  /\ Count(deadFiberQueue_, f) = 0
  /\ fiber[f].context \in {"sleepCurrentFiber", "awaitIOEvent"}

\* C20: only a fiber suspended in Sleep or awaitIOEvent has an item in the timer
\* store, and it has one item; a fiber that is running, ready or dead has none, and
\* every fiber linked in a wait set has one. So a fiber released by readiness or by
\* unwatchIO cannot be released again by the timeout of the same await.
C20_TimerOnlySuspended ==
  /\ \A f \in TimerFibers(timer_) : Suspended(f)
  /\ \A i, j \in 1 .. Len(timer_) : timer_[i].fiber = timer_[j].fiber => i = j
  /\ \A f \in Range(PollWaiting(ioPoll_)) : f \in TimerFibers(timer_)
  /\ \A f \in FiberIds : Count(readyFiberQueue_, f) <= 1

C20_Witness ==
  /\ Running
  /\ wokenBy[runningFiber_] # <<>> /\ wokenBy[runningFiber_][1] = "poll"
  /\ \E g \in Range(readyFiberQueue_) : WokenByUnwatch(g)
  /\ \E i \in 1 .. Len(timer_) : IsDue(timer_[i])

====
